---- MODULE Spec2Model ----
(***************************************************************************)
(* Model of homework.py: a bot that polls the homework-review API every   *)
(* RETRY_PERIOD seconds and forwards status changes and errors to a chat. *)
(*                                                                         *)
(* Python values are modelled as follows.  None is the string "None".     *)
(* A JSON value is a record tagged by its Python type in field t.  The    *)
(* Russian message texts of the source are written in ASCII               *)
(* transliteration, one distinct string per distinct source text;         *)
(* f-strings are built with \o exactly where the source interpolates.     *)
(***************************************************************************)
EXTENDS Naturals, Sequences, FiniteSets, TLC

VARIABLES
    pc,           \* position of main: "start", "try", "finally", "exited", "crashed"
    env,          \* the three credentials read at import (lines 16-18)
    timestamp,    \* main's local timestamp (line 135)
    last_status,  \* main's local last_status (line 136)
    last_error,   \* main's local last_error (line 137)
    exit_code,    \* the statuses passed to sys.exit: <<>> while running
    critical,     \* texts logged at critical level, in order
    slept,        \* durations of time.sleep calls since the last try block began
    propagating,  \* an exception left the except block and is unwinding through finally
    cycle         \* history: what the latest pass through the loop body was
                  \* given and did; after: a pass preceded it; fresh: that
                  \* pass completed on a first record whose status is the
                  \* last_status this pass started with

vars == <<pc, env, timestamp, last_status, last_error, exit_code, critical,
          slept, propagating, cycle>>

None == "None"

----------------------------------------------------------------------------
(* Bounds of the inputs *)

\* current_date values the API may report are 1..MaxDate
MaxDate == 2

----------------------------------------------------------------------------
(* Module-level constants of homework.py *)

RETRY_PERIOD == 600

ENDPOINT == "https://practicum.yandex.ru/api/user_api/homework_statuses/"

HTTP_OK == 200

\* int((datetime.now() - timedelta(days=30)).timestamp()): one fixed start value
InitialTimestamp == 0

VerdictKeys == {"approved", "reviewing", "rejected"}

HOMEWORK_VERDICTS ==
    [k \in VerdictKeys |->
        CASE k = "approved" -> "Rabota proverena: revyueru vsyo ponravilos. Ura!"
          [] k = "reviewing" -> "Rabota vzyata na proverku revyuerom."
          [] k = "rejected" -> "Rabota proverena: u revyuera est zamechaniya."]

\* HEADERS = {'Authorization': f'OAuth {PRACTICUM_TOKEN}'}, as str() prints it
HEADERS(e) == "{'Authorization': 'OAuth " \o e.PRACTICUM_TOKEN \o "'}"

----------------------------------------------------------------------------
(* Exceptions: a record with the class name and the message argument *)

NoExc == [type |-> "None", msg |-> "None"]

Exc(type, msg) == [type |-> type, msg |-> msg]

\* str(error): KeyError prints the repr of its single argument, the other
\* classes print the argument itself
Str(error) ==
    IF error.type = "KeyError" THEN "'" \o error.msg \o "'" ELSE error.msg

----------------------------------------------------------------------------
(* check_tokens, lines 47-61 *)

TokenNames == <<"PRACTICUM_TOKEN", "TELEGRAM_TOKEN", "TELEGRAM_CHAT_ID">>

\* os.getenv gives None for an unset variable, else its (possibly empty) text
EnvValues == {None, "", "secret"}

\* Variant of Truthy that tests "is not None": an empty text passes
Truthy_unset_only(value) == value # None

\* Python truthiness of an os.getenv result
Truthy(value) == value # None /\ value # ""

\* missing_tokens = [name for name, value in tokens.items() if not value]
missing_tokens(e) ==
    SelectSeq(TokenNames, LAMBDA name : ~Truthy(e[name]))

CriticalMissing(token) ==
    "Otsutstvuet obyazatelnaya peremennaya okruzheniya: \"" \o token \o "\""

\* the critical messages check_tokens logs, in order
check_tokens_log(e) ==
    [i \in 1..Len(missing_tokens(e)) |-> CriticalMissing(missing_tokens(e)[i])]

check_tokens(e) == missing_tokens(e) = <<>>

----------------------------------------------------------------------------
(* What the two collaborators can hand back *)

\* a homework record of the JSON body: an object with or without the keys
\* homework_name and status, or (t = "str") an element that is no object
StatusValues == VerdictKeys \cup {"in_progress"}

Homework(has_name, has_status, status) ==
    [t |-> "dict", has_name |-> has_name,
     homework_name |-> IF has_name THEN "hw1" ELSE None,
     has_status |-> has_status, status |-> status]

HomeworkRecords ==
    {Homework(TRUE, TRUE, s) : s \in StatusValues}
    \cup {Homework(TRUE, FALSE, None), Homework(FALSE, TRUE, "approved"),
          Homework(FALSE, FALSE, None)}
    \cup {[t |-> "str", has_name |-> FALSE, homework_name |-> None,
           has_status |-> FALSE, status |-> None]}

\* the records that may follow the first one
OlderRecord ==
    [t |-> "dict", has_name |-> TRUE, homework_name |-> "hw0",
     has_status |-> TRUE, status |-> "rejected"]

\* a homeworks list is empty, or its first record followed by older ones
Tails == {<<>>, <<OlderRecord>>}

HomeworkLists ==
    {<<>>} \cup {<<r>> \o tail : r \in HomeworkRecords, tail \in Tails}

\* the value under key "homeworks": a JSON array, or something that is no array
HomeworksValues ==
    [t : {"list"}, items : HomeworkLists] \cup [t : {"str"}, items : {<<>>}]

NoHomeworks == [t |-> "None", items |-> <<>>]

\* the decoded JSON body: an object with any subset of the two keys (without
\* current_date: the lists of at most one record), an array, or no JSON at all
Bodies ==
    [t : {"dict"}, has_homeworks : {TRUE}, homeworks : HomeworksValues,
     has_current_date : {TRUE}, current_date : 1..MaxDate]
    \cup [t : {"dict"}, has_homeworks : {TRUE},
          homeworks : {v \in HomeworksValues : Len(v.items) <= 1},
          has_current_date : {FALSE}, current_date : {0}]
    \cup [t : {"dict"}, has_homeworks : {FALSE}, homeworks : {NoHomeworks},
          has_current_date : {TRUE}, current_date : 1..MaxDate]
    \cup [t : {"dict", "list", "not_json"}, has_homeworks : {FALSE},
          homeworks : {NoHomeworks}, has_current_date : {FALSE},
          current_date : {0}]

NoBody ==
    [t |-> "None", has_homeworks |-> FALSE, homeworks |-> NoHomeworks,
     has_current_date |-> FALSE, current_date |-> 0]

BadCodes == {500}

\* what requests.get does: raises RequestException, or returns a response
ApiOutcomes ==
    [kind : {"RequestException"}, status_code : {0}, body : {NoBody}]
    \cup [kind : {"response"}, status_code : BadCodes, body : {NoBody}]
    \cup [kind : {"response"}, status_code : {HTTP_OK}, body : Bodies]

NoApi == [kind |-> "None", status_code |-> 0, body |-> NoBody]

\* what bot.send_message does: delivers, or raises one of the two transport errors
SendOutcomes == {"ok", "ApiException", "RequestException"}

----------------------------------------------------------------------------
(* send_message, lines 64-71 *)

\* a call of bot.send_message: the text and whether the transport delivered it
Attempt(message, so) == [text |-> message, delivered |-> so = "ok"]

\* the exception classes of the except clause at line 68
Caught == {"ApiException", "RequestException"}

\* Variant of send_message without the try statement of lines 66-69: every
\* failure of the transport leaves the function
send_message_unguarded(message, so) ==
    IF so = "ok"
    THEN [exc |-> NoExc, attempts |-> <<Attempt(message, so)>>]
    ELSE [exc |-> Exc(so, "send failed"), attempts |-> <<Attempt(message, so)>>]

\* Variant of send_message whose except clause names TelegramApiException
\* alone
send_message_api_only(message, so) ==
    IF so = "ok" \/ so = "ApiException"
    THEN [exc |-> NoExc, attempts |-> <<Attempt(message, so)>>]
    ELSE [exc |-> Exc(so, "send failed"), attempts |-> <<Attempt(message, so)>>]

\* bot.send_message is called once; an exception of a caught class is logged
\* and the function returns, any other exception leaves the function
send_message(message, so) ==
    IF so = "ok" \/ so \in Caught
    THEN [exc |-> NoExc, attempts |-> <<Attempt(message, so)>>]
    ELSE [exc |-> Exc(so, "send failed"), attempts |-> <<Attempt(message, so)>>]

----------------------------------------------------------------------------
(* get_api_answer, lines 74-90 *)

\* Variant of request_params as the message would print it if only the url
\* and the query were interpolated
request_params_no_headers(ts, e) ==
    "{'url': '" \o ENDPOINT \o "', 'params': {'from_date': "
    \o ToString(ts) \o "}}"

\* str(request_params)
request_params(ts, e) ==
    "{'url': '" \o ENDPOINT \o "', 'headers': " \o HEADERS(e)
    \o ", 'params': {'from_date': " \o ToString(ts) \o "}}"

get_api_answer(ts, api, e) ==
    IF api.kind = "RequestException"
    THEN [exc |-> Exc("ApiRequestError",
                      "Oshibka zaprosa k API: connection failed"),
          value |-> NoBody]
    ELSE IF api.status_code # HTTP_OK
    THEN [exc |-> Exc("HTTPError",
                      "Endpoint " \o ENDPOINT \o " nedostupen. Parametry: "
                      \o request_params(ts, e) \o ".Kod otveta API: "
                      \o ToString(api.status_code)),
          value |-> NoBody]
    ELSE IF api.body.t = "not_json"
    THEN [exc |-> Exc("JSONDecodeError",
                      "Expecting value: line 1 column 1 (char 0)"),
          value |-> NoBody]
    ELSE [exc |-> NoExc, value |-> api.body]

----------------------------------------------------------------------------
(* check_response, lines 93-106 *)

\* Variant of check_response that tests the type of homeworks before it looks
\* for the key current_date
check_response_type_first(response) ==
    IF response.t # "dict"
    THEN Exc("TypeError",
             "Otvet ne slovar, poluchennyj tip dannyh: <class '"
             \o response.t \o "'>.")
    ELSE IF ~response.has_homeworks
    THEN Exc("KeyError", "V otvete API otsutstvuet klyuch homeworks.")
    ELSE IF response.homeworks.t # "list"
    THEN Exc("TypeError",
             "Klyuch \"homeworks\" ne spisok, a <class '" \o response.t \o "'>.")
    ELSE IF ~response.has_current_date
    THEN Exc("KeyError", "V otvete API otsutstvuet klyuch current_date.")
    ELSE NoExc

check_response(response) ==
    IF response.t # "dict"
    THEN Exc("TypeError",
             "Otvet ne slovar, poluchennyj tip dannyh: <class '"
             \o response.t \o "'>.")
    ELSE IF ~response.has_homeworks
    THEN Exc("KeyError", "V otvete API otsutstvuet klyuch homeworks.")
    ELSE IF ~response.has_current_date
    THEN Exc("KeyError", "V otvete API otsutstvuet klyuch current_date.")
    ELSE IF response.homeworks.t # "list"
    THEN Exc("TypeError",
             "Klyuch \"homeworks\" ne spisok, a <class '" \o response.t \o "'>.")
    ELSE NoExc

----------------------------------------------------------------------------
(* parse_status, lines 109-122 *)

\* Variant of parse_status whose verdict lookup has a default,
\* HOMEWORK_VERDICTS.get(status, status): an unknown status is accepted
parse_status_lenient(homework) ==
    IF ~homework.has_name
    THEN [exc |-> Exc("KeyError", "Otsutstvuet klyuch \"homework_name\" v domashke."),
          value |-> None]
    ELSE IF ~homework.has_status
    THEN [exc |-> Exc("KeyError", "Otsutstvuet klyuch \"status\" v domashke."),
          value |-> None]
    ELSE [exc |-> NoExc,
          value |-> "Izmenilsya status proverki raboty \""
                    \o homework.homework_name \o "\". "
                    \o (IF homework.status \in VerdictKeys
                        THEN HOMEWORK_VERDICTS[homework.status]
                        ELSE homework.status)]

\* Variant of parse_status that looks up status (line 114) before
\* homework_name (line 112)
parse_status_status_first(homework) ==
    IF ~homework.has_status
    THEN [exc |-> Exc("KeyError", "Otsutstvuet klyuch \"status\" v domashke."),
          value |-> None]
    ELSE IF ~homework.has_name
    THEN [exc |-> Exc("KeyError", "Otsutstvuet klyuch \"homework_name\" v domashke."),
          value |-> None]
    ELSE IF homework.status \notin VerdictKeys
    THEN [exc |-> Exc("ValueError",
                      "Neopredelennyj status: " \o homework.status \o "."),
          value |-> None]
    ELSE [exc |-> NoExc,
          value |-> "Izmenilsya status proverki raboty \""
                    \o homework.homework_name \o "\". "
                    \o HOMEWORK_VERDICTS[homework.status]]

\* Variant of parse_status whose message interpolates the status where
\* line 122 interpolates the verdict
parse_status_raw(homework) ==
    IF ~homework.has_name
    THEN [exc |-> Exc("KeyError", "Otsutstvuet klyuch \"homework_name\" v domashke."),
          value |-> None]
    ELSE IF ~homework.has_status
    THEN [exc |-> Exc("KeyError", "Otsutstvuet klyuch \"status\" v domashke."),
          value |-> None]
    ELSE IF homework.status \notin VerdictKeys
    THEN [exc |-> Exc("ValueError",
                      "Neopredelennyj status: " \o homework.status \o "."),
          value |-> None]
    ELSE [exc |-> NoExc,
          value |-> "Izmenilsya status proverki raboty \""
                    \o homework.homework_name \o "\". " \o homework.status]

parse_status(homework) ==
    IF ~homework.has_name
    THEN [exc |-> Exc("KeyError", "Otsutstvuet klyuch \"homework_name\" v domashke."),
          value |-> None]
    ELSE IF ~homework.has_status
    THEN [exc |-> Exc("KeyError", "Otsutstvuet klyuch \"status\" v domashke."),
          value |-> None]
    ELSE IF homework.status \notin VerdictKeys
    THEN [exc |-> Exc("ValueError",
                      "Neopredelennyj status: " \o homework.status \o "."),
          value |-> None]
    ELSE [exc |-> NoExc,
          value |-> "Izmenilsya status proverki raboty \""
                    \o homework.homework_name \o "\". "
                    \o HOMEWORK_VERDICTS[homework.status]]

----------------------------------------------------------------------------
(* main, lines 125-174 *)

\* the try block, lines 141-163, left with exception exc before any assignment
Raised(exc, ts, ls, attempts) ==
    [exc |-> exc, timestamp |-> ts, last_status |-> ls, attempts |-> attempts]

\* Variant of Advance without line 161: the cursor is never moved
Advance_keeps(response, ts, ls, attempts) ==
    [exc |-> NoExc, timestamp |-> ts, last_status |-> ls,
     attempts |-> attempts]

\* lines 161-163, reached by every path of the try block that does not raise
Advance(response, ts, ls, attempts) ==
    [exc |-> NoExc,
     timestamp |-> IF response.has_current_date
                   THEN response.current_date ELSE ts,
     last_status |-> ls, attempts |-> attempts]

\* Variant of compare_and_notify without line 152: last_status is never
\* updated
compare_and_notify_forgets(response, homework, ts, ls, so) ==
    LET current_status ==
            IF homework.has_status THEN homework.status ELSE None
    IN  IF current_status # ls
        THEN LET parsed == parse_status(homework)
                 sent == send_message(parsed.value, so)
             IN  IF parsed.exc # NoExc
                 THEN Raised(parsed.exc, ts, ls, <<>>)
                 ELSE IF sent.exc # NoExc
                 THEN Raised(sent.exc, ts, ls, sent.attempts)
                 ELSE Advance(response, ts, ls, sent.attempts)
        ELSE Advance(response, ts, ls, <<>>)

\* Variant of compare_and_notify with line 152 moved before line 150:
\* last_status is assigned before parse_status has accepted the record
compare_and_notify_early(response, homework, ts, ls, so) ==
    LET current_status ==
            IF homework.has_status THEN homework.status ELSE None
    IN  IF current_status # ls
        THEN LET parsed == parse_status(homework)
                 sent == send_message(parsed.value, so)
             IN  IF parsed.exc # NoExc
                 THEN Raised(parsed.exc, ts, current_status, <<>>)
                 ELSE IF sent.exc # NoExc
                 THEN Raised(sent.exc, ts, current_status, sent.attempts)
                 ELSE Advance(response, ts, current_status, sent.attempts)
        ELSE Advance(response, ts, ls, <<>>)

\* Variant of compare_and_notify that assigns last_status (line 152) only
\* when the message was delivered: an undelivered status is sent again
compare_and_notify_retry(response, homework, ts, ls, so) ==
    LET current_status ==
            IF homework.has_status THEN homework.status ELSE None
    IN  IF current_status # ls
        THEN LET parsed == parse_status(homework)
                 sent == send_message(parsed.value, so)
             IN  IF parsed.exc # NoExc
                 THEN Raised(parsed.exc, ts, ls, <<>>)
                 ELSE IF sent.exc # NoExc
                 THEN Raised(sent.exc, ts, ls, sent.attempts)
                 ELSE Advance(response, ts,
                              IF sent.attempts[1].delivered
                              THEN current_status ELSE ls,
                              sent.attempts)
        ELSE Advance(response, ts, ls, <<>>)

\* lines 149-157: the first record against last_status
compare_and_notify(response, homework, ts, ls, so) ==
    LET current_status ==
            IF homework.has_status THEN homework.status ELSE None
    IN  IF current_status # ls
        THEN LET parsed == parse_status(homework)
                 sent == send_message(parsed.value, so)
             IN  IF parsed.exc # NoExc
                 THEN Raised(parsed.exc, ts, ls, <<>>)
                 ELSE IF sent.exc # NoExc
                 THEN Raised(sent.exc, ts, ls, sent.attempts)
                 ELSE Advance(response, ts, current_status, sent.attempts)
        ELSE Advance(response, ts, ls, <<>>)

\* Variant of main_try that takes the last record, homeworks[-1], where
\* line 146 takes homeworks[0]
main_try_last(ts, ls, api, so, e) ==
    LET answer == get_api_answer(ts, api, e)
        response == answer.value
        checked == check_response(response)
        homeworks == response.homeworks.items
    IN  IF answer.exc # NoExc THEN Raised(answer.exc, ts, ls, <<>>)
        ELSE IF checked # NoExc THEN Raised(checked, ts, ls, <<>>)
        ELSE IF homeworks # <<>>
        THEN IF homeworks[Len(homeworks)].t # "dict"
             THEN Raised(Exc("AttributeError",
                             "'str' object has no attribute 'get'"),
                         ts, ls, <<>>)
             ELSE compare_and_notify(response, homeworks[Len(homeworks)],
                                     ts, ls, so)
        ELSE Advance(response, ts, ls, <<>>)

\* Variant of main_try whose empty-list branch leaves the try block with
\* continue: lines 161-163 are skipped
main_try_continue(ts, ls, api, so, e) ==
    LET answer == get_api_answer(ts, api, e)
        response == answer.value
        checked == check_response(response)
        homeworks == response.homeworks.items
    IN  IF answer.exc # NoExc THEN Raised(answer.exc, ts, ls, <<>>)
        ELSE IF checked # NoExc THEN Raised(checked, ts, ls, <<>>)
        ELSE IF homeworks # <<>>
        THEN IF homeworks[1].t # "dict"
             THEN Raised(Exc("AttributeError",
                             "'str' object has no attribute 'get'"),
                         ts, ls, <<>>)
             ELSE compare_and_notify(response, homeworks[1], ts, ls, so)
        ELSE Raised(NoExc, ts, ls, <<>>)

\* lines 141-163
main_try(ts, ls, api, so, e) ==
    LET answer == get_api_answer(ts, api, e)
        response == answer.value
        checked == check_response(response)
        homeworks == response.homeworks.items
    IN  IF answer.exc # NoExc THEN Raised(answer.exc, ts, ls, <<>>)
        ELSE IF checked # NoExc THEN Raised(checked, ts, ls, <<>>)
        ELSE IF homeworks # <<>>
        THEN IF homeworks[1].t # "dict"
             THEN Raised(Exc("AttributeError",
                             "'str' object has no attribute 'get'"),
                         ts, ls, <<>>)
             ELSE compare_and_notify(response, homeworks[1], ts, ls, so)
        ELSE Advance(response, ts, ls, <<>>)

ErrorMessage(error) == "Sboj v rabote programmy: " \o Str(error)

\* Variant of main_except without the comparison of line 168: every error
\* is sent
main_except_always_sends(error, le, so) ==
    LET sent == send_message(ErrorMessage(error), so)
    IN  [last_error |-> Str(error), attempts |-> sent.attempts,
         propagating |-> sent.exc # NoExc]

\* Variant of main_except that ends with a bare raise: the error is reported
\* and then leaves the except block
main_except_reraises(error, le, so) ==
    LET sent == send_message(ErrorMessage(error), so)
    IN  IF Str(error) # le
        THEN [last_error |-> IF sent.exc # NoExc THEN le ELSE Str(error),
              attempts |-> sent.attempts, propagating |-> TRUE]
        ELSE [last_error |-> le, attempts |-> <<>>, propagating |-> TRUE]

\* lines 165-170, entered with the exception the try block raised
main_except(error, le, so) ==
    LET sent == send_message(ErrorMessage(error), so)
    IN  IF Str(error) # le
        THEN IF sent.exc # NoExc
             THEN [last_error |-> le, attempts |-> sent.attempts,
                   propagating |-> TRUE]
             ELSE [last_error |-> Str(error), attempts |-> sent.attempts,
                   propagating |-> FALSE]
        ELSE [last_error |-> le, attempts |-> <<>>, propagating |-> FALSE]

\* Variant of loop_body without line 163: a pass that does not raise leaves
\* last_error as it was
loop_body_keeps_error(ts, ls, le, api, so, e) ==
    LET t == main_try(ts, ls, api, so, e)
        x == main_except(t.exc, le, so)
    IN  IF t.exc = NoExc
        THEN [timestamp |-> t.timestamp, last_status |-> t.last_status,
              last_error |-> le, exc |-> NoExc, attempts |-> t.attempts,
              logged |-> None, propagating |-> FALSE]
        ELSE [timestamp |-> t.timestamp, last_status |-> t.last_status,
              last_error |-> x.last_error, exc |-> t.exc,
              attempts |-> t.attempts \o x.attempts,
              logged |-> ErrorMessage(t.exc), propagating |-> x.propagating]

\* one pass through try/except, lines 140-170
loop_body(ts, ls, le, api, so, e) ==
    LET t == main_try(ts, ls, api, so, e)
        x == main_except(t.exc, le, so)
    IN  IF t.exc = NoExc
        THEN [timestamp |-> t.timestamp, last_status |-> t.last_status,
              last_error |-> None, exc |-> NoExc, attempts |-> t.attempts,
              logged |-> None, propagating |-> FALSE]
        ELSE [timestamp |-> t.timestamp, last_status |-> t.last_status,
              last_error |-> x.last_error, exc |-> t.exc,
              attempts |-> t.attempts \o x.attempts,
              logged |-> ErrorMessage(t.exc), propagating |-> x.propagating]

\* Variant of after_body with the sleep in an else clause: it is skipped when
\* the try block raised
after_body_else(raised) == IF raised THEN "try" ELSE "finally"

\* where control goes when the try/except statement is left: the finally
\* clause, whether or not an exception was raised
after_body(raised) == "finally"

----------------------------------------------------------------------------
(* Reading a history record c of one pass *)

\* the pass took the error path / completed without raising
IsError(c) == c.ran /\ c.exc # NoExc
Completed(c) == c.ran /\ c.exc = NoExc

\* the texts handed to bot.send_message in the pass, in order
Texts(c) == [i \in 1..Len(c.attempts) |-> c.attempts[i].text]

\* the poll of the pass returned a JSON object
Returned(c) ==
    /\ c.ran /\ c.api.kind = "response" /\ c.api.status_code = HTTP_OK
    /\ c.api.body.t = "dict"

\* ... with both keys and a list under homeworks
Valid(c) ==
    /\ Returned(c)
    /\ c.api.body.has_homeworks /\ c.api.body.has_current_date
    /\ c.api.body.homeworks.t = "list"

\* ... whose homeworks list has a first record that is an object
HasFirst(c) ==
    /\ Returned(c) /\ c.api.body.has_homeworks
    /\ c.api.body.homeworks.t = "list"
    /\ c.api.body.homeworks.items # <<>>
    /\ c.api.body.homeworks.items[1].t = "dict"

First(c) == c.api.body.homeworks.items[1]

----------------------------------------------------------------------------
(* The state machine *)

NoCycle ==
    [ran |-> FALSE, after |-> FALSE, fresh |-> FALSE, from_date |-> 0,
     api |-> NoApi,
     pre_status |-> None,
     pre_error |-> None, exc |-> NoExc, attempts |-> <<>>, logged |-> None,
     slept_before |-> <<>>]

Init ==
    /\ pc = "start"
    /\ env \in [{"PRACTICUM_TOKEN", "TELEGRAM_TOKEN", "TELEGRAM_CHAT_ID"}
                -> EnvValues]
    /\ timestamp = InitialTimestamp
    /\ last_status = None
    /\ last_error = None
    /\ exit_code = <<>>
    /\ critical = <<>>
    /\ slept = <<>>
    /\ propagating = FALSE
    /\ cycle = NoCycle

\* Variant of Startup without line 131: main goes on after the failed check
Startup_no_exit ==
    /\ pc = "start"
    /\ critical' = IF ~check_tokens(env)
                   THEN check_tokens_log(env)
                        \o <<"Programma ostanovlena iz-za otsutstviya peremennyh okruzheniya.">>
                   ELSE check_tokens_log(env)
    /\ pc' = "try"
    /\ timestamp' = InitialTimestamp
    /\ last_status' = None
    /\ last_error' = None
    /\ UNCHANGED <<env, exit_code, slept, propagating, cycle>>

\* lines 127-137: the failed check logs and exits at line 131; otherwise the
\* locals of lines 135-137 are set and the loop is entered
Startup ==
    /\ pc = "start"
    /\ IF ~check_tokens(env)
       THEN /\ critical' = check_tokens_log(env)
                  \o <<"Programma ostanovlena iz-za otsutstviya peremennyh okruzheniya.">>
            /\ exit_code' = <<1>>
            /\ pc' = "exited"
            /\ UNCHANGED <<timestamp, last_status, last_error>>
       ELSE /\ critical' = check_tokens_log(env)
            /\ pc' = "try"
            /\ timestamp' = InitialTimestamp
            /\ last_status' = None
            /\ last_error' = None
            /\ UNCHANGED exit_code
    /\ UNCHANGED <<env, slept, propagating, cycle>>

\* the transport has an outcome only in a pass that calls bot.send_message
TransportOutcomes(ts, ls, le, api, e) ==
    IF loop_body(ts, ls, le, api, "ok", e).attempts = <<>>
    THEN {"ok"} ELSE SendOutcomes

\* what the history keeps of a pass that was given api and ended as r
History(api, r) ==
    [ran |-> TRUE, after |-> cycle.ran,
     fresh |-> /\ Completed(cycle) /\ HasFirst(cycle)
               /\ First(cycle).has_status
               /\ First(cycle).status = last_status,
     from_date |-> timestamp, api |-> api,
     pre_status |-> last_status,
     pre_error |-> last_error, exc |-> r.exc,
     attempts |-> r.attempts, logged |-> r.logged,
     slept_before |-> slept]

\* a history that keeps the outcome of the pass only: its exception and its
\* sends
Outline(api, r) ==
    [NoCycle EXCEPT !.ran = TRUE, !.after = cycle.ran, !.exc = r.exc,
                    !.attempts = r.attempts]

\* lines 140-170: one try/except with what the API and the transport do in
\* it; the history keeps the whole pass (full) or its outline
Try(full) ==
    /\ pc = "try"
    /\ \E api \in ApiOutcomes :
       \E so \in TransportOutcomes(timestamp, last_status, last_error, api, env) :
          LET r == loop_body(timestamp, last_status, last_error, api, so, env)
          IN  /\ timestamp' = r.timestamp
              /\ last_status' = r.last_status
              /\ last_error' = r.last_error
              /\ propagating' = r.propagating
              /\ cycle' = IF full THEN History(api, r) ELSE Outline(api, r)
              /\ pc' = after_body(r.exc # NoExc)
    /\ slept' = <<>>
    /\ UNCHANGED <<env, exit_code, critical>>

Cycle == Try(TRUE)

\* the same pass with the outline as its history
Poll == Try(FALSE)

\* lines 172-174
Sleep ==
    /\ pc = "finally"
    /\ slept' = Append(slept, RETRY_PERIOD)
    /\ pc' = IF propagating THEN "crashed" ELSE "try"
    /\ UNCHANGED <<env, timestamp, last_status, last_error, exit_code,
                   critical, propagating, cycle>>

Next == Startup \/ Cycle \/ Sleep

Spec == Init /\ [][Next]_vars

\* The program with the outline as its history, for the properties of whole
\* behaviours, which read pc and the outcome of a pass only
FairNext == Startup \/ Poll \/ Sleep

\* the one thread of the interpreter keeps running: main starts, requests.get
\* and bot.send_message return or raise, time.sleep returns
FairSpec ==
    /\ Init /\ [][FairNext]_vars
    /\ WF_vars(Startup) /\ WF_vars(Poll) /\ WF_vars(Sleep)

----------------------------------------------------------------------------
(* Vocabulary of the properties *)

\* a step that is one pass through the loop body: cycle is the pass before
\* it, cycle' the pass itself
Pass == pc = "try" /\ vars' # vars

----------------------------------------------------------------------------
(* C1 *)

C1_EachErrorPass ==
    IsError(cycle) =>
        /\ last_error = Str(cycle.exc)
        /\ Texts(cycle) = IF Str(cycle.exc) # cycle.pre_error
                          THEN <<ErrorMessage(cycle.exc)>> ELSE <<>>

C1_ConsecutiveErrors ==
    (Pass /\ IsError(cycle) /\ IsError(cycle')) =>
        /\ Str(cycle'.exc) = Str(cycle.exc) =>
              /\ cycle'.attempts = <<>>
              /\ Len(cycle.attempts) <= 1
              /\ cycle.pre_error # Str(cycle.exc) => Len(cycle.attempts) = 1
        /\ Str(cycle'.exc) # Str(cycle.exc) =>
              Texts(cycle') = <<ErrorMessage(cycle'.exc)>>

\* C1: a pass that ends in the error path sends a chat message iff the text
\* of its error differs from last_error, and leaves last_error equal to that
\* text; so of two consecutive error passes with the same text the second
\* sends nothing and the first sends once (when the text was new to it),
\* and an error pass that follows one with a different text sends once.
C1_ErrorDeduplication == []C1_EachErrorPass /\ [][C1_ConsecutiveErrors]_vars

\* the second of two error passes with the same text, suppressed
C1_Witness ==
    /\ IsError(cycle) /\ cycle.after
    /\ cycle.pre_error = Str(cycle.exc)
    /\ cycle.attempts = <<>>
    /\ last_error = Str(cycle.exc)

----------------------------------------------------------------------------
(* C2 *)

C2_SuccessResets == Completed(cycle) => last_error = None

C2_ErrorAfterSuccess ==
    (Pass /\ Completed(cycle) /\ IsError(cycle')) =>
        /\ Texts(cycle') = <<ErrorMessage(cycle'.exc)>>
        /\ last_error' = Str(cycle'.exc)

\* C2: every pass that completes without raising (empty list and unchanged
\* status included) leaves last_error = None, and an error in the pass after
\* a completed one is always sent to the chat, whatever was notified before.
C2_ResetOnSuccess == []C2_SuccessResets /\ [][C2_ErrorAfterSuccess]_vars

\* an error pass right after a completed pass (pre_error is None and a pass
\* preceded), whose error was sent
C2_Witness ==
    /\ IsError(cycle) /\ cycle.after
    /\ cycle.pre_error = None
    /\ Len(cycle.attempts) = 1

----------------------------------------------------------------------------
(* C3 *)

\* both polls returned a homeworks list whose first record has status s
SameStatus(c, d) ==
    /\ HasFirst(c) /\ HasFirst(d)
    /\ First(c).has_status /\ First(d).has_status
    /\ First(c).status = First(d).status

NothingNew == cycle'.attempts = <<>> /\ last_status' = last_status

\* C3 as stated: whenever two consecutive polls return a homeworks list
\* whose first record has the same status, the second pass sends nothing
\* and leaves last_status unchanged.
C3_AsStated == [][(Pass /\ SameStatus(cycle, cycle')) => NothingNew]_vars

\* C3, amended: if two consecutive polls return valid responses whose first
\* records have the same status and agree on whether homework_name is
\* present, the second pass sends nothing and leaves last_status unchanged,
\* for every status value and whether or not the first pass's message was
\* delivered.
C3_Idempotence ==
    [][(/\ Pass /\ SameStatus(cycle, cycle')
        /\ Valid(cycle) /\ Valid(cycle')
        /\ First(cycle).has_name = First(cycle').has_name) => NothingNew]_vars

\* the second of two consecutive completed polls with the same first-record
\* status: nothing sent, last_status kept
C3_Witness ==
    /\ cycle.fresh /\ Valid(cycle) /\ HasFirst(cycle)
    /\ First(cycle).has_name /\ First(cycle).has_status
    /\ First(cycle).status = cycle.pre_status
    /\ cycle.attempts = <<>>
    /\ last_status = cycle.pre_status

----------------------------------------------------------------------------
(* C4 *)

\* the text the chat is to receive for a homework and a known status
VerdictMessage(name, status) ==
    "Izmenilsya status proverki raboty \"" \o name \o "\". "
    \o HOMEWORK_VERDICTS[status]

\* the first record's status is a known verdict that differs from the
\* last_status the pass started with
KnownChange(c) ==
    /\ HasFirst(c) /\ First(c).has_status
    /\ First(c).status \in VerdictKeys
    /\ First(c).status # c.pre_status

\* the pass sent exactly one message, the verdict text of its first record
OneVerdict(c) ==
    Texts(c) = <<VerdictMessage(First(c).homework_name, First(c).status)>>

\* poll N has first record reviewing, poll N+1 approved, same homework
ReviewingThenApproved(c, d) ==
    /\ HasFirst(c) /\ HasFirst(d)
    /\ First(c).has_name /\ First(d).has_name
    /\ First(c).homework_name = First(d).homework_name
    /\ First(c).has_status /\ First(c).status = "reviewing"
    /\ First(d).has_status /\ First(d).status = "approved"

ApprovedNotified ==
    /\ Texts(cycle') = <<VerdictMessage(First(cycle').homework_name, "approved")>>
    /\ last_status' = "approved"

\* C4 as stated: reviewing in poll N and approved in poll N+1 gives exactly
\* one message in pass N+1, the approved text, and last_status = approved;
\* and whenever the first record's status is a known verdict different from
\* last_status, the pass sends exactly one message, that verdict's text.
C4_AsStated ==
    /\ [][(Pass /\ ReviewingThenApproved(cycle, cycle')) => ApprovedNotified]_vars
    /\ [](KnownChange(cycle) => OneVerdict(cycle))

\* C4, amended: the same, for valid responses (both keys present, homeworks
\* a list) whose first record has a homework_name.
C4_ChangeDetection ==
    /\ [][(/\ Pass /\ ReviewingThenApproved(cycle, cycle')
           /\ Valid(cycle) /\ Valid(cycle')) => ApprovedNotified]_vars
    /\ []((KnownChange(cycle) /\ Valid(cycle) /\ First(cycle).has_name) =>
             (OneVerdict(cycle) /\ last_status = First(cycle).status))

\* reviewing seen by the completed pass before, approved in this one: one
\* message with the approved text
C4_Witness ==
    /\ cycle.fresh /\ cycle.pre_status = "reviewing"
    /\ Valid(cycle) /\ HasFirst(cycle) /\ First(cycle).has_name
    /\ First(cycle).has_status /\ First(cycle).status = "approved"
    /\ Texts(cycle) = <<VerdictMessage("hw1", "approved")>>
    /\ last_status = "approved"

----------------------------------------------------------------------------
(* C5 *)

HasCurrentDate(c) == Returned(c) /\ c.api.body.has_current_date

\* C5 as stated: the current_date of every response that contains one is
\* the from_date of the next request; without one the previous from_date
\* is used again.
C5_AsStated ==
    [][(Pass /\ cycle.ran) =>
          cycle'.from_date = IF HasCurrentDate(cycle)
                             THEN cycle.api.body.current_date
                             ELSE cycle.from_date]_vars

\* C5, amended: the current_date of the response of every pass that
\* completes without raising is the from_date of the next request; after
\* any other pass (a response without current_date, which fails validation,
\* included) the previous from_date is used again.
C5_CursorAdvancement ==
    /\ [][(Pass /\ cycle.ran) =>
             cycle'.from_date = IF Completed(cycle)
                                THEN cycle.api.body.current_date
                                ELSE cycle.from_date]_vars
    /\ [](Completed(cycle) => HasCurrentDate(cycle))

\* a pass that was given a cursor taken from an earlier response and moved
\* it to the current_date of its own response
C5_Witness ==
    /\ Completed(cycle)
    /\ cycle.from_date # InitialTimestamp
    /\ cycle.api.body.current_date # cycle.from_date
    /\ timestamp = cycle.api.body.current_date

----------------------------------------------------------------------------
(* C6 *)

\* C6: a pass that ends in the error path leaves timestamp and last_status
\* as they were when it started; the cursor differs from the one the pass
\* started with only after a pass that completed without raising.
C6_ErrorFrame ==
    /\ IsError(cycle) =>
          (timestamp = cycle.from_date /\ last_status = cycle.pre_status)
    /\ (cycle.ran /\ timestamp # cycle.from_date) => Completed(cycle)

\* an error pass on a valid response with a new current_date and a first
\* record of unrecognized status: cursor and last_status kept
C6_Witness ==
    /\ IsError(cycle) /\ Valid(cycle) /\ HasFirst(cycle)
    /\ First(cycle).has_name /\ First(cycle).status = "in_progress"
    /\ cycle.api.body.current_date # cycle.from_date
    /\ cycle.pre_status \in VerdictKeys
    /\ timestamp = cycle.from_date /\ last_status = cycle.pre_status

----------------------------------------------------------------------------
(* C7 *)

\* the transport failed in a send of the pass
Undelivered(c) == \E i \in 1..Len(c.attempts) : ~c.attempts[i].delivered

\* what the same pass does when the transport delivers
Delivered(c) ==
    loop_body(c.from_date, c.pre_status, c.pre_error, c.api, "ok", env)

\* C7: a pass in which the transport failed ends as the same pass with a
\* successful send ends, nothing propagates and the loop goes on: after a
\* failed status notification last_status is the new status, the cursor is
\* the response's current_date and last_error is None; after a failed
\* error notification last_error is the error's text.
C7_SendFailureSwallowed ==
    /\ pc # "crashed" /\ ~propagating
    /\ (cycle.ran /\ Undelivered(cycle)) =>
          /\ pc \in {"finally", "try"}
          /\ timestamp = Delivered(cycle).timestamp
          /\ last_status = Delivered(cycle).last_status
          /\ last_error = Delivered(cycle).last_error
          /\ cycle.exc = Delivered(cycle).exc
          /\ Len(cycle.attempts) = 1
          /\ Completed(cycle) =>
                /\ Texts(cycle) = <<VerdictMessage(First(cycle).homework_name,
                                                   First(cycle).status)>>
                /\ last_status = First(cycle).status
                /\ timestamp = cycle.api.body.current_date
                /\ last_error = None
          /\ IsError(cycle) =>
                /\ Texts(cycle) = <<ErrorMessage(cycle.exc)>>
                /\ last_error = Str(cycle.exc)

\* a status notification the transport did not deliver; the pass completed,
\* last_status and the cursor moved, and the loop is at its next pass
C7_Witness ==
    /\ pc = "try" /\ Completed(cycle) /\ Undelivered(cycle)
    /\ cycle.pre_status # "approved" /\ last_status = "approved"
    /\ timestamp # cycle.from_date
    /\ last_error = None

----------------------------------------------------------------------------
(* C8 *)

\* C8: the sleep runs once after every pass, completed or not: in the
\* finally clause nothing has been slept since the pass (whose messages are
\* already sent), and every pass but the first starts after exactly one
\* sleep of 600 seconds.
C8_OneSleepPerCycle ==
    /\ pc = "finally" => (cycle.ran /\ slept = <<>>)
    /\ (pc = "try" /\ cycle.ran) => slept = <<600>>
    /\ cycle.ran =>
          cycle.slept_before = IF cycle.after THEN <<600>> ELSE <<>>

\* an error pass that sent its message, started after one sleep and was
\* followed by one sleep
C8_Witness ==
    /\ pc = "try" /\ IsError(cycle) /\ cycle.after
    /\ Len(cycle.attempts) = 1
    /\ cycle.slept_before = <<600>>
    /\ slept = <<600>>

----------------------------------------------------------------------------
(* C9 *)

\* C9: when check_tokens returns false main exits with status 1 before any
\* pass of the loop (so before any request and any message); when it
\* returns true main never exits; and the process ends in no other way.
C9_ExitOnlyOnMissingTokens ==
    /\ (~check_tokens(env) /\ pc # "start") =>
          (pc = "exited" /\ exit_code = <<1>> /\ ~cycle.ran)
    /\ check_tokens(env) => (pc # "exited" /\ exit_code = <<>>)
    /\ pc \in {"start", "try", "finally", "exited"}

\* main has exited with status 1 on an empty chat id, having polled nothing
C9_Witness ==
    /\ pc = "exited" /\ exit_code = <<1>> /\ ~cycle.ran
    /\ env.PRACTICUM_TOKEN = "secret" /\ env.TELEGRAM_TOKEN = "secret"
    /\ env.TELEGRAM_CHAT_ID = ""

----------------------------------------------------------------------------
(* C10 *)

Credentials == {"PRACTICUM_TOKEN", "TELEGRAM_TOKEN", "TELEGRAM_CHAT_ID"}

\* the credentials that are unset or empty
Missing(e) == {name \in Credentials : e[name] = None \/ e[name] = ""}

Count(log, text) == Cardinality({i \in 1..Len(log) : log[i] = text})

\* C10: check_tokens returns true iff no credential is unset or empty, and
\* it logs one critical message naming each missing credential and none
\* naming a present one.
C10_CheckTokens ==
    /\ check_tokens(env) <=> Missing(env) = {}
    /\ pc # "start" =>
          /\ \A name \in Credentials :
                Count(critical, CriticalMissing(name))
                    = IF name \in Missing(env) THEN 1 ELSE 0
          /\ Len(critical) = IF Missing(env) = {}
                             THEN 0 ELSE Cardinality(Missing(env)) + 1

\* after the check of an environment with an empty bot token and no chat id:
\* two credentials named, then main's own message
C10_Witness ==
    /\ pc = "exited"
    /\ env.PRACTICUM_TOKEN = "secret" /\ env.TELEGRAM_TOKEN = ""
    /\ env.TELEGRAM_CHAT_ID = None
    /\ critical = <<CriticalMissing("TELEGRAM_TOKEN"),
                    CriticalMissing("TELEGRAM_CHAT_ID"),
                    "Programma ostanovlena iz-za otsutstviya peremennyh okruzheniya.">>

----------------------------------------------------------------------------
(* C11 *)

\* get_api_answer returned a decoded body, which main hands to check_response
Checked(c) ==
    /\ c.ran /\ c.api.kind = "response" /\ c.api.status_code = HTTP_OK
    /\ c.api.body.t # "not_json"

MissingKey(key) == Exc("KeyError", "V otvete API otsutstvuet klyuch " \o key \o ".")

\* C11: check_response raises a type error for a body that is no mapping,
\* else a missing-key error naming homeworks when that key is absent, else
\* one naming current_date when that key is absent, else a type error when
\* homeworks is no list; it accepts every other body, that is exactly the
\* mappings with both keys and a (possibly empty) list under homeworks.
C11_CheckResponse ==
    Checked(cycle) =>
        LET body == cycle.api.body
        IN  IF body.t # "dict" THEN cycle.exc.type = "TypeError"
            ELSE IF ~body.has_homeworks THEN cycle.exc = MissingKey("homeworks")
            ELSE IF ~body.has_current_date
            THEN cycle.exc = MissingKey("current_date")
            ELSE IF body.homeworks.t # "list"
            THEN cycle.exc.type = "TypeError"
            ELSE /\ cycle.exc.type # "TypeError"
                 /\ cycle.exc # MissingKey("homeworks")
                 /\ cycle.exc # MissingKey("current_date")

\* a mapping without current_date whose homeworks is no list: the missing
\* key is reported, not the type
C11_Witness ==
    /\ Checked(cycle) /\ cycle.api.body.t = "dict"
    /\ cycle.api.body.has_homeworks /\ cycle.api.body.homeworks.t = "str"
    /\ ~cycle.api.body.has_current_date
    /\ cycle.exc = MissingKey("current_date")
    /\ Texts(cycle) = <<"Sboj v rabote programmy: 'V otvete API otsutstvuet klyuch current_date.'">>

----------------------------------------------------------------------------
(* C12 *)

\* homework.get('status') of the first record
CurrentStatus(c) == IF First(c).has_status THEN First(c).status ELSE None

\* the pass handed its first record to parse_status (line 150)
Parsed(c) == Valid(c) /\ HasFirst(c) /\ CurrentStatus(c) # c.pre_status

MissingField(key) ==
    Exc("KeyError", "Otsutstvuet klyuch \"" \o key \o "\" v domashke.")

\* C12: for every record handed to parse_status: without homework_name it
\* raises the missing-key error for homework_name; else without status the
\* missing-key error naming status; else with a status outside approved,
\* reviewing, rejected the unrecognized-status error; else it returns the
\* message built from homework_name and the verdict of the table, which is
\* the one text the pass sends.
C12_ParseStatus ==
    Parsed(cycle) =>
        LET homework == First(cycle)
        IN  IF ~homework.has_name
            THEN cycle.exc = MissingField("homework_name")
            ELSE IF ~homework.has_status
            THEN cycle.exc = MissingField("status")
            ELSE IF homework.status \notin {"approved", "reviewing", "rejected"}
            THEN cycle.exc = Exc("ValueError", "Neopredelennyj status: "
                                               \o homework.status \o ".")
            ELSE /\ Completed(cycle)
                 /\ Texts(cycle) = <<VerdictMessage(homework.homework_name,
                                                    homework.status)>>

\* a record with neither key reaches parse_status: homework_name is the key
\* reported
C12_Witness ==
    /\ Parsed(cycle)
    /\ ~First(cycle).has_name /\ ~First(cycle).has_status
    /\ cycle.exc = MissingField("homework_name")
    /\ cycle.pre_status \in VerdictKeys

----------------------------------------------------------------------------
(* C13 *)

\* C13: whenever the response is valid and its first record has no status
\* field, the pass raises the missing-key error for status and takes the
\* error path: the error is logged, sent to the chat unless its text equals
\* last_error, and the cursor stays where it was; for every last_status,
\* None included.
C13_MissingStatusRaises ==
    (Valid(cycle) /\ HasFirst(cycle) /\ ~First(cycle).has_status) =>
        /\ cycle.exc = MissingField("status")
        /\ cycle.logged = ErrorMessage(cycle.exc)
        /\ Texts(cycle) = IF Str(cycle.exc) # cycle.pre_error
                          THEN <<ErrorMessage(cycle.exc)>> ELSE <<>>
        /\ last_error = Str(cycle.exc)
        /\ timestamp = cycle.from_date

----------------------------------------------------------------------------
(* C14 *)

\* no exception leaves the try statement: main is never unwinding and never
\* left by an exception
C14_AllCaught == ~propagating /\ pc # "crashed"

\* C14: with valid credentials the loop has no terminal state: every error
\* of a pass is caught at the loop boundary (nothing propagates, main is
\* never left), and under fairness the loop is entered, every pass reaches
\* its sleep and every sleep is followed by the next call of get_api_answer,
\* whatever the API and the transport do.
C14_NoTerminalState ==
    /\ []C14_AllCaught
    /\ [](check_tokens(env) => <>(pc = "try"))
    /\ ((pc = "try") ~> (pc = "finally" /\ cycle.ran))
    /\ ((pc = "finally") ~> (pc = "try" /\ cycle.ran))

\* the loop is about to poll again after an error pass whose report the
\* transport failed to deliver
C14_Witness ==
    /\ pc = "try" /\ cycle.after
    /\ IsError(cycle) /\ Undelivered(cycle)
    /\ slept = <<RETRY_PERIOD>>

----------------------------------------------------------------------------
(* C15 *)

\* the poll of the pass returned a valid response with an empty list
Empty(c) == Valid(c) /\ c.api.body.homeworks.items = <<>>

C15_EmptyPass ==
    Empty(cycle) =>
        /\ Completed(cycle)
        /\ cycle.attempts = <<>>
        /\ last_status = cycle.pre_status
        /\ timestamp = cycle.api.body.current_date
        /\ last_error = None

C15_SameStatusAfterEmpty ==
    (/\ Pass /\ Empty(cycle) /\ cycle.pre_status # None
     /\ Valid(cycle') /\ HasFirst(cycle')
     /\ CurrentStatus(cycle') = cycle.pre_status) =>
        /\ cycle'.attempts = <<>>
        /\ last_status' = cycle.pre_status

\* C15: a pass whose valid response has an empty homeworks list sends
\* nothing, leaves last_status as it was, moves the cursor to the response's
\* current_date and resets last_error to None; and when the pass after it
\* has a first record with the status that was last seen before the empty
\* pass, that pass sends nothing either.
C15_EmptyPollFrame == []C15_EmptyPass /\ [][C15_SameStatusAfterEmpty]_vars

\* an empty poll right after a pass that saw status approved: the status is
\* kept and the cursor moved
C15_Witness ==
    /\ Empty(cycle) /\ cycle.fresh
    /\ cycle.pre_status = "approved" /\ last_status = "approved"
    /\ cycle.from_date # cycle.api.body.current_date
    /\ timestamp = cycle.api.body.current_date
    /\ cycle.attempts = <<>>

----------------------------------------------------------------------------
(* C16 *)

\* the response of the pass with the records after the first replaced by tail
WithTail(api, tail) ==
    [api EXCEPT !.body.homeworks.items = <<api.body.homeworks.items[1]>> \o tail]

\* the remaining records the response is compared with: none, one record
\* of any shape (no object included), or two older ones
OtherTails ==
    Tails \cup {<<r>> : r \in HomeworkRecords}
          \cup {<<OlderRecord, OlderRecord>>}

\* C16: the records after the first have no influence: a pass on a valid
\* response ends with the same exception, the same sends and the same
\* timestamp, last_status and last_error as a pass from the same state on
\* any response with the same first record and current_date and other
\* remaining records.
C16_FirstRecordOnly ==
    (Valid(cycle) /\ cycle.api.body.homeworks.items # <<>>) =>
        \A tail \in OtherTails : \E so \in SendOutcomes :
            LET other == loop_body(cycle.from_date, cycle.pre_status,
                                   cycle.pre_error,
                                   WithTail(cycle.api, tail), so, env)
            IN  /\ other.exc = cycle.exc
                /\ other.attempts = cycle.attempts
                /\ other.timestamp = timestamp
                /\ other.last_status = last_status
                /\ other.last_error = last_error

\* a response whose first record is approved and whose second is the older,
\* rejected one: the approved verdict is the one message and last_status
C16_Witness ==
    /\ Valid(cycle) /\ Len(cycle.api.body.homeworks.items) = 2
    /\ HasFirst(cycle) /\ First(cycle).has_status
    /\ First(cycle).status = "approved"
    /\ cycle.api.body.homeworks.items[2].status = "rejected"
    /\ Texts(cycle) = <<VerdictMessage("hw1", "approved")>>
    /\ last_status = "approved"

----------------------------------------------------------------------------
(* C17 *)

\* C17: last_status is always None or one of approved, reviewing, rejected;
\* a pass changes it only when parse_status accepted the first record, and
\* then to that record's status.
C17_KnownLastStatus ==
    /\ last_status \in {None, "approved", "reviewing", "rejected"}
    /\ (cycle.ran /\ last_status # cycle.pre_status) =>
          /\ Parsed(cycle) /\ Completed(cycle)
          /\ First(cycle).has_name /\ First(cycle).has_status
          /\ last_status = First(cycle).status

\* the first poll brings a named record with an unknown status: parse_status
\* rejects it and last_status stays None
C17_Witness ==
    /\ Parsed(cycle) /\ ~cycle.after
    /\ First(cycle).has_name /\ First(cycle).status = "in_progress"
    /\ cycle.exc.type = "ValueError"
    /\ last_status = None

----------------------------------------------------------------------------
(* C18 *)

\* a failed send leaves the state as a delivered one does: the new status is
\* in last_status, the error text in last_error
C18_FailedSendRecorded ==
    /\ (Undelivered(cycle) /\ Completed(cycle)) =>
          /\ last_status = First(cycle).status
          /\ last_status # cycle.pre_status
    /\ (Undelivered(cycle) /\ IsError(cycle)) =>
          /\ last_error = Str(cycle.exc)
          /\ last_status = cycle.pre_status

\* the pass after a failed send, with the same status or the same error
C18_NextPassSilent ==
    /\ (/\ Pass /\ Undelivered(cycle) /\ Completed(cycle)
        /\ Valid(cycle') /\ HasFirst(cycle')
        /\ CurrentStatus(cycle') = First(cycle).status) =>
           /\ cycle'.attempts = <<>>
           /\ last_status' = last_status
    /\ (/\ Pass /\ Undelivered(cycle) /\ IsError(cycle)
        /\ IsError(cycle') /\ Str(cycle'.exc) = Str(cycle.exc)) =>
           /\ cycle'.attempts = <<>>
           /\ last_error' = last_error

\* C18: a notification whose delivery failed is not sent again: after a
\* failed status message last_status is the new status, and the next pass
\* whose first record has that status sends nothing and keeps it; after a
\* failed error message last_error is the error's text, and the next pass
\* that raises the same error sends nothing and keeps it.
C18_NoRetry == []C18_FailedSendRecorded /\ [][C18_NextPassSilent]_vars

\* after the sleep that follows an undelivered report of a non-200 answer:
\* the error is recorded although nobody saw it
C18_Witness ==
    /\ pc = "try" /\ IsError(cycle) /\ Undelivered(cycle)
    /\ cycle.exc.type = "HTTPError"
    /\ cycle.pre_error = None /\ last_error = Str(cycle.exc)

----------------------------------------------------------------------------
(* C19 *)

\* C19: a pass calls bot.send_message at most once: a pass that completes
\* sends nothing or the one verdict message of its first record, a pass
\* that raises sends nothing or the one message of its error; no pass sends
\* both (the transport failing only in the ways send_message catches).
C19_OneSendPerCycle ==
    cycle.ran =>
        /\ Len(cycle.attempts) <= 1
        /\ Completed(cycle) =>
              \/ cycle.attempts = <<>>
              \/ /\ Parsed(cycle)
                 /\ Texts(cycle) = <<VerdictMessage(First(cycle).homework_name,
                                                    First(cycle).status)>>
        /\ IsError(cycle) =>
              \/ cycle.attempts = <<>>
              \/ Texts(cycle) = <<ErrorMessage(cycle.exc)>>

\* a changed, known status on a record without homework_name: the pass
\* sends one message, the error, and no verdict
C19_Witness ==
    /\ Parsed(cycle) /\ First(cycle).has_status
    /\ First(cycle).status \in VerdictKeys /\ ~First(cycle).has_name
    /\ IsError(cycle) /\ Len(cycle.attempts) = 1
    /\ Texts(cycle) = <<ErrorMessage(MissingField("homework_name"))>>

----------------------------------------------------------------------------
(* C20 *)

\* the poll of the pass returned a status code other than 200
NotOK(c) ==
    c.ran /\ c.api.kind = "response" /\ c.api.status_code # HTTP_OK

\* the chat message for a non-200 answer, with the Authorization value in it
TokenMessage(token, from_date, status_code) ==
    "Sboj v rabote programmy: Endpoint https://practicum.yandex.ru/api/user_api/homework_statuses/"
    \o " nedostupen. Parametry: {'url': 'https://practicum.yandex.ru/api/user_api/homework_statuses/'"
    \o ", 'headers': {'Authorization': 'OAuth " \o token
    \o "'}, 'params': {'from_date': " \o ToString(from_date)
    \o "}}.Kod otveta API: " \o ToString(status_code)

\* the pass of c as it runs when PRACTICUM_TOKEN is token
WithToken(c, token) ==
    loop_body(c.from_date, c.pre_status, c.pre_error, c.api,
              "ok", [env EXCEPT !.PRACTICUM_TOKEN = token])

\* C20: a pass whose poll answers with a code other than 200 raises the
\* error whose text prints request_params, headers with the Authorization
\* value included; the text is logged, and every chat message of the pass
\* is that text, so it carries the API token: with another token the chat
\* message would be another.
C20_TokenInNotification ==
    NotOK(cycle) =>
        LET text == TokenMessage(env.PRACTICUM_TOKEN, cycle.from_date,
                                 cycle.api.status_code)
        IN  /\ cycle.exc.type = "HTTPError"
            /\ ErrorMessage(cycle.exc) = text
            /\ cycle.logged = text
            /\ \A i \in 1..Len(cycle.attempts) : cycle.attempts[i].text = text
            /\ cycle.pre_error # Str(cycle.exc) => Len(cycle.attempts) = 1
            /\ cycle.attempts # <<>> =>
                  \A token \in {"secret", "other"} :
                      WithToken(cycle, token).attempts
                          = <<Attempt(TokenMessage(token, cycle.from_date,
                                                   cycle.api.status_code),
                                      "ok")>>

\* the first poll is answered with 500 and the report is delivered: the chat
\* has received the token
C20_Witness ==
    /\ NotOK(cycle) /\ ~cycle.after
    /\ cycle.attempts =
          <<[text |-> TokenMessage("secret", InitialTimestamp, 500),
             delivered |-> TRUE]>>

====
